---- MODULE Spec2Model ----
(***************************************************************************)
(* Model of examples/polygon_polygon_collision.rs: the fixed-timestep      *)
(* simulation loop of main() driving a box2d World and an SFML window.     *)
(*                                                                         *)
(* Time is counted in units of 1/3000 s, so that the millisecond of the    *)
(* clock reading (3 units), the fixed step 1/60 s (50 units) and the       *)
(* frame-time clamp 0.2 s (600 units) are all whole numbers; the f64       *)
(* arithmetic of the program is modelled exactly (no rounding).            *)
(* Lengths are counted in units of 1/36000 m, so that one step of gravity  *)
(* moves a body by a whole number of units.                                *)
(***************************************************************************)
EXTENDS Integers, Sequences, FiniteSets, TLC

(* ---------------- units and program constants ---------------- *)

\* one second, in time units (line 59 converts the clock to seconds)
Second == 3000
\* one metre, in length units (line 158: 1.0 == 1 meter)
Meter == 36000

\* const meters_to_pixels: f32 = 100.0
meters_to_pixels == 100

\* let step = 1.0 / 60.0
step == Second \div 60

\* the clamp of line 61: .min(0.2)
max_frame_time == Second \div 5

\* the clock reading is truncated to whole milliseconds (num_milliseconds)
Millisecond == Second \div 1000

(* ---------------- bounds of the model ---------------- *)

\* the first clock reading, in milliseconds (stands for the time since 1970)
EpochMs == 300
\* how many frames (clock readings) a run makes at most
MaxFrames == 3
\* how many events may wait in the window's queue
MaxPending == 1
\* how many points the polygons and chains drawn for a shape have at most
MaxPoints == 2

\* the changes of the wall clock between two readings, in milliseconds:
\* get_time() reads the realtime clock, which advances and can be set back
Deltas == {0 - 40, 0, 40, 200, 250}

(* ---------------- vectors ---------------- *)

Vec2(x, y) == [x |-> x, y |-> y]

\* Vec2 + Vec2
VecAdd(a, b) == [x |-> a.x + b.x, y |-> a.y + b.y]

\* Vec2::multiply(scalar)
VecMultiply(a, k) == [x |-> a.x * k, y |-> a.y * k]

Min(a, b) == IF a <= b THEN a ELSE b

(* ---------------- the world (setup_box2d) ---------------- *)

SquarePoints ==
    << Vec2(-((3 * Meter) \div 4), -((3 * Meter) \div 4)),
       Vec2(-((3 * Meter) \div 4),  ((3 * Meter) \div 4)),
       Vec2( ((3 * Meter) \div 4),  ((3 * Meter) \div 4)),
       Vec2( ((3 * Meter) \div 4), -((3 * Meter) \div 4)) >>

polygon_body_def ==
    [ shape         |-> [kind |-> "PolygonShape", points |-> SquarePoints],
      body_type     |-> "StaticBody",
      position      |-> Vec2(4 * Meter, 4 * Meter),
      velocity      |-> Vec2(0, 0),
      gravity_scale |-> 1 ]

polygon_body_def2 ==
    [ shape         |-> [kind |-> "PolygonShape", points |-> SquarePoints],
      body_type     |-> "DynamicBody",
      position      |-> Vec2((7 * Meter) \div 2, Meter),
      velocity      |-> Vec2(0, 0),
      gravity_scale |-> 1 ]

\* World::new(Vec2::new(0.0, 9.8)) followed by the two add_body calls
setup_box2d ==
    [ gravity |-> Vec2(0, (98 * Meter) \div 10),
      bodies  |-> << polygon_body_def, polygon_body_def2 >> ]

\* World::step(dt) for one body: a dynamic body is accelerated by gravity and
\* moved by its new velocity; a static body stays where it is.  Velocities are
\* in length units per second.  The library's source is not part of the
\* example; contact between bodies is left out.
BodyStep(b, gravity, dt) ==
    IF b.body_type = "DynamicBody"
    THEN LET v == Vec2(b.velocity.x + (gravity.x * b.gravity_scale * dt) \div Second,
                       b.velocity.y + (gravity.y * b.gravity_scale * dt) \div Second)
         IN  [b EXCEPT !.velocity = v,
                       !.position = Vec2(b.position.x + (v.x * dt) \div Second,
                                         b.position.y + (v.y * dt) \div Second)]
    ELSE b

\* World::step(dt): advances every body by one step
WorldStep(w, dt) ==
    [w EXCEPT !.bodies = [i \in DOMAIN w.bodies |-> BodyStep(w.bodies[i], w.gravity, dt)]]

(* ---------------- the pure parts of main ---------------- *)

\* line 61 without the test of paused
FrameTimeIgnoringPause(p, new_time, cur_time) ==
    Min(new_time - cur_time, max_frame_time)

\* line 61 without the clamp .min(0.2)
FrameTimeUnclamped(p, new_time, cur_time) ==
    IF ~p THEN new_time - cur_time ELSE 0

\* line 61: let frame_time = if !paused { (new_time - current_time).min(0.2) } else { 0.0 }
FrameTime(p, new_time, cur_time) ==
    IF ~p THEN Min(new_time - cur_time, max_frame_time) ELSE 0

\* line 62 moved into the branch of line 61 that is taken when not paused
NextCurrentTimeUnlessPaused(p, new_time, cur_time) == IF p THEN cur_time ELSE new_time

\* line 62: current_time = new_time
NextCurrentTime(p, new_time, cur_time) == new_time

\* line 65: while accumulator >= step && !paused
StepCondition(acc, p) == acc >= step /\ ~p

\* line 67 taking every whole step off the accumulator at once
AccumulatorDrained(acc) == acc % step

\* line 67: accumulator -= step
AccumulatorAfterStep(acc) == acc - step

\* lines 48-52 with the arm of line 51 toggling too
PausedAfterAnyKey(code, p) == IF code \in {"Space", "Other"} THEN ~p ELSE p

\* lines 48-52: the key pressed decides the new value of paused
PausedAfterKey(code, p) == IF code = "Space" THEN ~p ELSE p

\* line 46: event::Closed => window.close()
OpenAfterEvent(ev, o) == IF ev = "Closed" THEN FALSE ELSE o

\* line 49 with the Escape arm left out
IsReturnNever(ev) == ev \in {}

\* line 49 taken for a Closed event too
IsReturnOnClose(ev) == ev \in {"Escape", "Closed"}

\* line 49 with the arm of line 51 returning too
IsReturnAnyKey(ev) == ev \in {"Escape", "Other"}

\* line 49: Key::Escape => return
IsReturn(ev) == ev = "Escape"

\* lines 78, 91, 114, 129, 137 scaling the body position alone
GlobalPointScalingPosition(w, i, p) ==
    VecAdd(VecMultiply(w.bodies[i].position, meters_to_pixels), p)

\* the vertex drawn for a local point of body i (lines 78, 91, 114, 129, 137)
GlobalPoint(w, i, p) == VecMultiply(VecAdd(w.bodies[i].position, p), meters_to_pixels)

\* lines 123-135 without lines 136-142: the polygon is left open
PolygonVerticesOpen(w, i, points) ==
    [k \in 1..Len(points) |-> GlobalPoint(w, i, points[k])]

\* lines 123-144: the vertex array of a polygon, closed by its first point
PolygonVertices(w, i, points) ==
    [k \in 1..Len(points) |-> GlobalPoint(w, i, points[k])]
        \o << GlobalPoint(w, i, points[1]) >>

\* lines 108-122: the vertex array of an open chain
ChainVertices(w, i, points) ==
    [k \in 1..Len(points) |-> GlobalPoint(w, i, points[k])]

\* line 137: points[0] is an index out of bounds when the polygon of body i
\* has no points, and main panics
DrawPanics(w, i) ==
    /\ w.bodies[i].shape.kind = "PolygonShape"
    /\ Len(w.bodies[i].shape.points) = 0

\* lines 73-145: the draw call made for body i
DrawCall(w, i) ==
    LET shape == w.bodies[i].shape
    IN  CASE shape.kind = "PolygonShape" ->
               [primitive |-> "LinesStrip", vertices |-> PolygonVertices(w, i, shape.points)]
          [] shape.kind = "ChainLineShape" ->
               [primitive |-> "LinesStrip", vertices |-> ChainVertices(w, i, shape.points)]
          [] shape.kind = "LineShape" ->
               [primitive |-> "Lines",
                vertices  |-> << GlobalPoint(w, i, shape.point1), GlobalPoint(w, i, shape.point2) >>]
          [] shape.kind = "CircleShape" ->
               [primitive |-> "Circle",
                vertices  |-> << GlobalPoint(w, i, shape.center) >>]

(* ---------------- state ---------------- *)

VARIABLES
    pc,            \* position of main: "loop", "events", "clock", "stepping",
                   \* "clear", "draw", "display", "done", "panicked"
    window_open,   \* window.is_open()
    pending,       \* the events waiting in the window's queue
    paused,        \* let mut paused
    current_time,  \* let mut current_time
    accumulator,   \* let mut accumulator
    frame_time,    \* let frame_time (of the latest frame)
    world,         \* let mut world
    body_i,        \* the loop variable i of the draw loop
    canvas,        \* the draw calls made since the last window.clear
    shown,         \* the draw calls presented by the last window.display
    \* history variables
    readings,      \* the clock readings of the latest two frames, newest last
    acc_before,    \* accumulator after line 64 of the latest frame
    frame_steps,   \* world.step calls made by the latest frame
    steps_total,   \* world.step calls made so far
    stepped,       \* the world as the latest world.step call (or setup) left it
    before_press,  \* <<paused, accumulator>> before the latest Space press, or <<>>
    frames,        \* the frames (clock readings) made so far
    fed,           \* the sum, over the frames read while not paused, of the time
                   \* between the reading and the one before (before the first:
                   \* the initial current_time), each clamped to 0.2 s
    left_behind,   \* the events that were queued behind Escape when it was handled
    space_after_close  \* a Space press was handled after a Closed event

vars == << pc, window_open, pending, paused, current_time, accumulator, frame_time,
           world, body_i, canvas, shown, readings, acc_before, frame_steps,
           steps_total, stepped, before_press, frames, fed,
           left_behind, space_after_close >>

program_vars == << pc, window_open, paused, current_time, accumulator, frame_time,
                   world, body_i, canvas, shown >>

history_vars == << readings, acc_before, frame_steps, steps_total, stepped,
                   before_press, frames, fed, left_behind, space_after_close >>

\* the events of window.events(): "Other" is any event that is neither Closed
\* nor a press of Escape or Space (the arms of lines 51 and 54)
Events == {"Closed", "Escape", "Space", "Other"}

Init ==
    /\ pc = "loop"
    /\ window_open = TRUE
    /\ pending = << >>
    /\ paused = TRUE
    /\ current_time = 0
    /\ accumulator = 0
    /\ frame_time = 0
    /\ world = setup_box2d
    /\ body_i = 0
    /\ canvas = << >>
    /\ shown = << >>
    /\ readings = << >>
    /\ acc_before = 0
    /\ frame_steps = 0
    /\ steps_total = 0
    /\ stepped = setup_box2d
    /\ before_press = << >>
    /\ frames = 0
    /\ fed = 0
    /\ left_behind = << >>
    /\ space_after_close = FALSE

(* ---------------- the environment ---------------- *)

\* the user or the window system puts an event into a queue of up to n events
PostEventUpTo(n) ==
    /\ Len(pending) < n
    /\ \E ev \in Events : pending' = Append(pending, ev)
    /\ UNCHANGED << program_vars, history_vars >>

\* the user or the window system puts an event into the window's queue
PostEvent == PostEventUpTo(MaxPending)

(* ---------------- main ---------------- *)

\* line 42: while window.is_open()
LoopTest ==
    /\ pc = "loop"
    /\ pc' = IF window_open THEN "events" ELSE "done"
    /\ UNCHANGED << window_open, pending, paused, current_time, accumulator, frame_time,
                    world, body_i, canvas, shown, history_vars >>

\* lines 44-56: one turn of  for event in window.events()
HandleEvent ==
    /\ pc = "events"
    /\ pending # << >>
    /\ LET ev == Head(pending)
       IN  /\ pending' = Tail(pending)
           /\ window_open' = OpenAfterEvent(ev, window_open)
           /\ paused' = PausedAfterKey(ev, paused)
           /\ pc' = IF IsReturn(ev) THEN "done" ELSE "events"
           /\ before_press' = IF ev = "Space" THEN << paused, accumulator >> ELSE before_press
           /\ left_behind' = IF ev = "Escape" THEN Tail(pending) ELSE left_behind
           /\ space_after_close' = (space_after_close \/ (~window_open /\ ev = "Space"))
    /\ UNCHANGED << current_time, accumulator, frame_time, world, body_i, canvas, shown,
                    readings, acc_before, frame_steps, steps_total, stepped, frames,
                    fed >>

\* lines 44-56 as  if let  in place of  for : the drain is left after one turn
EventsDoneEarly ==
    /\ pc = "events"
    /\ pc' = "clock"
    /\ UNCHANGED << window_open, pending, paused, current_time, accumulator, frame_time,
                    world, body_i, canvas, shown, history_vars >>

\* line 56: the event iterator is exhausted
EventsDone ==
    /\ pc = "events"
    /\ pending = << >>
    /\ pc' = "clock"
    /\ UNCHANGED << window_open, pending, paused, current_time, accumulator, frame_time,
                    world, body_i, canvas, shown, history_vars >>

\* the readings get_time() can return now: the first is the time since 1970,
\* a later one is the previous one changed by one of deltas
ClockReadingsBy(deltas) ==
    IF readings = << >>
    THEN { EpochMs * Millisecond }
    ELSE { current_time + d * Millisecond : d \in deltas }

\* the clock reading of the frame before, or the initial current_time
PreviousReading == IF readings = << >> THEN 0 ELSE readings[Len(readings)]

\* lines 58-64: read the clock, compute frame_time, add it to the accumulator
ReadClockBy(deltas) ==
    /\ pc = "clock"
    /\ frames < MaxFrames
    /\ \E new_time \in ClockReadingsBy(deltas) :
         LET ft == FrameTime(paused, new_time, current_time)
         IN  /\ frame_time' = ft
             /\ current_time' = NextCurrentTime(paused, new_time, current_time)
             /\ accumulator' = accumulator + ft
             /\ acc_before' = accumulator + ft
             /\ readings' = IF readings = << >> THEN << new_time >>
                            ELSE << readings[Len(readings)], new_time >>
             /\ fed' = IF paused THEN fed
                       ELSE fed + Min(new_time - PreviousReading, max_frame_time)
    /\ frame_steps' = 0
    /\ frames' = frames + 1
    /\ pc' = "stepping"
    /\ UNCHANGED << window_open, pending, paused, world, body_i, canvas, shown,
                    steps_total, stepped, before_press, left_behind, space_after_close >>

\* lines 58-64 with a wall clock that advances and can be set back
ReadClock == ReadClockBy(Deltas)

\* lines 65-68: one turn of the stepping loop
StepWorld ==
    /\ pc = "stepping"
    /\ StepCondition(accumulator, paused)
    /\ world' = WorldStep(world, step)
    /\ stepped' = WorldStep(world, step)
    /\ accumulator' = AccumulatorAfterStep(accumulator)
    /\ frame_steps' = frame_steps + 1
    /\ steps_total' = steps_total + 1
    /\ UNCHANGED << pc, window_open, pending, paused, current_time, frame_time, body_i,
                    canvas, shown, readings, acc_before, before_press, frames,
                    fed, left_behind, space_after_close >>

\* line 65 followed by  if paused { continue; } : a paused frame is not rendered
SteppingDoneSkipsRender ==
    /\ pc = "stepping"
    /\ ~StepCondition(accumulator, paused)
    /\ pc' = IF paused THEN "loop" ELSE "clear"
    /\ UNCHANGED << window_open, pending, paused, current_time, accumulator, frame_time,
                    world, body_i, canvas, shown, history_vars >>

\* line 65: the stepping loop ends
SteppingDone ==
    /\ pc = "stepping"
    /\ ~StepCondition(accumulator, paused)
    /\ pc' = "clear"
    /\ UNCHANGED << window_open, pending, paused, current_time, accumulator, frame_time,
                    world, body_i, canvas, shown, history_vars >>

\* line 71: window.clear
Clear ==
    /\ pc = "clear"
    /\ canvas' = << >>
    /\ body_i' = 0
    /\ pc' = "draw"
    /\ UNCHANGED << window_open, pending, paused, current_time, accumulator, frame_time,
                    world, shown, history_vars >>

\* lines 72-146 reading the bodies of a copy of the world taken at setup
DrawBodyFromSetup ==
    /\ pc = "draw"
    /\ body_i < Len(world.bodies)
    /\ canvas' = Append(canvas, DrawCall(setup_box2d, body_i + 1))
    /\ body_i' = body_i + 1
    /\ UNCHANGED << pc, window_open, pending, paused, current_time, accumulator, frame_time,
                    world, shown, history_vars >>

\* lines 72-146: one turn of  for i in 0..world.bodies.len()
DrawBody ==
    /\ pc = "draw"
    /\ body_i < Len(world.bodies)
    /\ ~DrawPanics(world, body_i + 1)
    /\ canvas' = Append(canvas, DrawCall(world, body_i + 1))
    /\ body_i' = body_i + 1
    /\ UNCHANGED << pc, window_open, pending, paused, current_time, accumulator, frame_time,
                    world, shown, history_vars >>

\* lines 123-137 for a polygon without points: the vertex array stays empty,
\* line 137 panics and no draw call is made.  The bodies of setup_box2d have
\* four points each, so main itself never takes this step.
DrawPanic ==
    /\ pc = "draw"
    /\ body_i < Len(world.bodies)
    /\ DrawPanics(world, body_i + 1)
    /\ pc' = "panicked"
    /\ UNCHANGED << window_open, pending, paused, current_time, accumulator, frame_time,
                    world, body_i, canvas, shown, history_vars >>

\* line 146: the draw loop ends
DrawDone ==
    /\ pc = "draw"
    /\ body_i >= Len(world.bodies)
    /\ pc' = "display"
    /\ UNCHANGED << window_open, pending, paused, current_time, accumulator, frame_time,
                    world, body_i, canvas, shown, history_vars >>

\* line 147: window.display
Display ==
    /\ pc = "display"
    /\ shown' = canvas
    /\ pc' = "loop"
    /\ UNCHANGED << window_open, pending, paused, current_time, accumulator, frame_time,
                    world, body_i, canvas, history_vars >>

Program ==
    \/ LoopTest
    \/ HandleEvent
    \/ EventsDone
    \/ ReadClock
    \/ StepWorld
    \/ SteppingDone
    \/ Clear
    \/ DrawBody
    \/ DrawDone
    \/ Display

Next == PostEvent \/ Program

Spec == Init /\ [][Next]_vars

(* ---------------- the render code on arbitrary shapes ---------------- *)

\* the local points the shapes are made of
ShapePoints == { Vec2(-((3 * Meter) \div 4), Meter \div 2), Vec2(Meter, 0) }

\* the point lists of up to MaxPoints points
PointLists == UNION { [1..n -> ShapePoints] : n \in 0..MaxPoints }

\* the four variants of box2d::shape::shape::Shape (lines 75, 89, 108, 123)
Shapes ==
    { [kind |-> "CircleShape", center |-> c, radius |-> Meter \div 2] : c \in ShapePoints }
    \cup { [kind |-> "LineShape", point1 |-> p, point2 |-> q] : p, q \in ShapePoints }
    \cup { [kind |-> "ChainLineShape", points |-> ps] : ps \in PointLists }
    \cup { [kind |-> "PolygonShape", points |-> ps] : ps \in PointLists }

\* worlds of one body of any shape, and the world of setup_box2d
ShapeWorlds ==
    { [ gravity |-> setup_box2d.gravity,
        bodies  |-> << [ shape         |-> sh,
                         body_type     |-> bt,
                         position      |-> Vec2((7 * Meter) \div 2, Meter),
                         velocity      |-> Vec2(0, 0),
                         gravity_scale |-> 1 ] >> ] :
        sh \in Shapes, bt \in {"StaticBody", "DynamicBody"} }
    \cup { setup_box2d }

\* main at the stepping pass of a running frame, with any of these worlds and
\* time for no, one or two steps in the accumulator
InitShapes ==
    /\ pc = "stepping"
    /\ window_open = TRUE
    /\ pending = << >>
    /\ paused = FALSE
    /\ current_time = EpochMs * Millisecond
    /\ accumulator \in {0, step, 2 * step}
    /\ frame_time = accumulator
    /\ world \in ShapeWorlds
    /\ body_i = 0
    /\ canvas = << >>
    /\ shown = << >>
    /\ readings = << EpochMs * Millisecond >>
    /\ acc_before = accumulator
    /\ frame_steps = 0
    /\ steps_total = 0
    /\ stepped = world
    /\ before_press = << TRUE, 0 >>
    /\ frames = 1
    /\ fed = accumulator
    /\ left_behind = << >>
    /\ space_after_close = FALSE

\* the rest of that frame
NextShapes ==
    \/ StepWorld
    \/ SteppingDone
    \/ Clear
    \/ DrawBody
    \/ DrawPanic
    \/ DrawDone
    \/ Display

SpecShapes == InitShapes /\ [][NextShapes]_vars

(* ---------------- main with a deeper event queue ---------------- *)

\* the advance of a steady wall clock between two readings, in milliseconds
SteadyDeltas == {40}

\* the window's queue holds one event more
PostEventDeep == PostEventUpTo(MaxPending + 1)

\* lines 58-64 with a steady wall clock
ReadClockSteady == ReadClockBy(SteadyDeltas)

\* main as in Spec, with room for an event behind the one being handled; the
\* clock is steady to make up for the larger queue
NextDrain ==
    \/ PostEventDeep
    \/ LoopTest
    \/ HandleEvent
    \/ EventsDone
    \/ ReadClockSteady
    \/ StepWorld
    \/ SteppingDone
    \/ Clear
    \/ DrawBody
    \/ DrawDone
    \/ Display

SpecDrain == Init /\ [][NextDrain]_vars

(* ---------------- notions used by the properties ---------------- *)

\* floor(a / b) for b > 0
Floor(a, b) == IF a >= 0 THEN a \div b ELSE -((b - 1 - a) \div b)

\* main is between the clock reading of a frame and the next event drain:
\* paused still has the value the frame was computed with
InFrame == frames > 0 /\ pc \in {"stepping", "clear", "draw", "display", "loop"}

\* the stepping pass of the latest frame is over
PassDone == frames > 0 /\ pc # "stepping"

\* this step of main handles the event ev: it takes it off the queue
Handles(ev) ==
    /\ pc = "events"
    /\ pending # << >>
    /\ Head(pending) = ev
    /\ pending' = Tail(pending)

\* the latest frame had a frame before it
HasElapsed == Len(readings) = 2

\* the wall-clock time between the clock readings of the latest two frames
Elapsed == readings[2] - readings[1]

(* ---------------- C1 ---------------- *)

\* C1: after the stepping pass of every frame, the number of world.step calls
\* of the pass is floor(accumulator / step) as it was before the pass, and the
\* accumulator left lies in [0, step).
C1_StepsAndLeftover ==
    PassDone => /\ frame_steps = Floor(acc_before, step)
                /\ 0 <= accumulator
                /\ accumulator < step

(* ---------------- C2 ---------------- *)

\* C2: whatever main or the environment does while paused is true, the
\* accumulator keeps its value and no world.step call is made.
C2_PausedFrozen ==
    [][paused => /\ accumulator' = accumulator
                 /\ steps_total' = steps_total
                 /\ world' = world]_vars

\* a paused frame, 250 ms after the frame before it, is over and has left a
\* non-zero accumulator as it was
C2_Witness ==
    /\ pc = "clear" /\ paused
    /\ HasElapsed /\ Elapsed = 250 * Millisecond
    /\ accumulator > 0 /\ frame_steps = 0

(* ---------------- C3 ---------------- *)

\* C3 as stated: in every frame that comes at least 0.2 s after the frame
\* before it, exactly 0.2 s is added to the accumulator, and no frame adds more.
C3_ClampEveryFrame ==
    InFrame => /\ (HasElapsed /\ Elapsed >= max_frame_time) => frame_time = max_frame_time
               /\ frame_time <= max_frame_time

\* C3 amended: in every frame that is not paused and comes at least 0.2 s
\* after the frame before it, exactly 0.2 s is added to the accumulator; no
\* frame, paused or not, adds more than 0.2 s.
C3_ClampRunningFrame ==
    InFrame => /\ (~paused /\ HasElapsed /\ Elapsed >= max_frame_time)
                     => frame_time = max_frame_time
               /\ frame_time <= max_frame_time

\* a running frame 250 ms after the frame before it has added 0.2 s
C3_Witness ==
    /\ InFrame /\ ~paused
    /\ HasElapsed /\ Elapsed = 250 * Millisecond
    /\ frame_time = max_frame_time

(* ---------------- C4 ---------------- *)

\* C4 as stated: when a Space press is handled and one was handled before, the
\* paused flag and the accumulator are what they were before that earlier
\* press, whatever frames ran between the two.
C4_TwoPressesRestoreAll ==
    [][(Handles("Space") /\ before_press # << >>)
          => /\ paused' = before_press[1]
             /\ accumulator' = before_press[2]]_vars

\* C4 amended: two Space presses restore the paused flag; they restore the
\* accumulator when the program was Running before the first press, so that
\* the frames between the presses are paused ones.
C4_TwoPressesRestoreFromRunning ==
    [][(Handles("Space") /\ before_press # << >>)
          => /\ paused' = before_press[1]
             /\ ~before_press[1] => accumulator' = before_press[2]]_vars

\* a second press has just resumed the program after a paused frame that came
\* 250 ms after the frame before it; the non-zero accumulator is as it was
C4_Witness ==
    /\ pc = "events" /\ ~paused
    /\ before_press = << TRUE, accumulator >> /\ accumulator > 0
    /\ HasElapsed /\ Elapsed = 250 * Millisecond /\ frame_time = 0

(* ---------------- C5 ---------------- *)

\* C5: after every frame, paused or not, current_time is the clock reading of
\* that frame; so the time added by a running frame is the time since the
\* frame just before it, clamped to 0.2 s, however long the pause before.
C5_TimeRefreshedEveryFrame ==
    /\ frames > 0 => current_time = readings[Len(readings)]
    /\ (InFrame /\ ~paused /\ HasElapsed) => frame_time = Min(Elapsed, max_frame_time)

\* the third frame is the first running one: the second frame came 250 ms
\* after the first and stepped nothing, the third 40 ms later has added 40 ms
C5_Witness ==
    /\ pc = "clear" /\ ~paused /\ frames = 3
    /\ readings = << (EpochMs + 250) * Millisecond, (EpochMs + 290) * Millisecond >>
    /\ steps_total = frame_steps
    /\ frame_time = 40 * Millisecond

(* ---------------- C6 ---------------- *)

\* C6: a step changes paused exactly when it handles a Space press, and then
\* it flips it.
C6_PausedOnlyBySpace ==
    [][/\ paused' # paused => Handles("Space")
       /\ Handles("Space") => paused' = ~paused]_vars

\* a Space press has ended the initial pause and another one is waiting
C6_Witness ==
    /\ ~paused /\ before_press = << TRUE, 0 >>
    /\ pending = << "Space" >>

(* ---------------- C7 ---------------- *)

\* main has returned
Terminated == pc = "done"

\* C7: main returns only by handling Escape or by the loop test finding the
\* window closed, which only a Closed event causes; both always end it; once
\* it has returned nothing of the program changes and no event is handled.
C7_TerminationAbsorbing ==
    [][/\ (~Terminated /\ Terminated') => (Handles("Escape") \/ (pc = "loop" /\ ~window_open))
       /\ window_open' # window_open => (Handles("Closed") /\ ~window_open')
       /\ Handles("Escape") => Terminated'
       /\ Handles("Closed") => ~window_open'
       /\ (pc = "loop" /\ pc' # pc /\ ~window_open) => Terminated'
       /\ (pc = "loop" /\ pc' # pc /\ window_open) => ~Terminated'
       /\ Terminated => /\ UNCHANGED program_vars
                         /\ UNCHANGED << steps_total, frames >>
                         /\ Len(pending') >= Len(pending)]_vars

\* main has returned at the loop test, Paused, after a frame that handled a
\* Closed event and was still presented; an event posted since is left waiting
C7_Witness ==
    /\ Terminated /\ ~window_open /\ paused
    /\ frames > 0 /\ shown # << >>
    /\ pending # << >>

(* ---------------- C8 ---------------- *)

\* the draw calls of a whole frame for the world w
RenderAll(w) == [k \in 1..Len(w.bodies) |-> DrawCall(w, k)]

\* C8: the world changes only by a world.step call of the stepping pass, and
\* every draw call of a frame, as the frame presented, shows the bodies as the
\* latest world.step call (or, before the first, setup) left them.
C8_WorldMovesOnlyByStep ==
    /\ [][world' # world => /\ pc = "stepping" /\ pc' = "stepping"
                            /\ steps_total' = steps_total + 1
                            /\ world' = stepped']_vars
    /\ [][(pc = "display" /\ pc' = "loop") => shown' = RenderAll(stepped)]_vars
    /\ [](pc \in {"draw", "display"}
              => \A k \in 1..Len(canvas) : canvas[k] = DrawCall(stepped, k))

\* a frame that made physics steps is drawn in full and about to be presented
C8_Witness ==
    /\ pc = "display" /\ frame_steps > 0
    /\ canvas = RenderAll(world) /\ world # setup_box2d
    /\ shown # canvas

(* ---------------- C9 ---------------- *)

\* the order of the positions of main within one iteration of the loop
PhaseOrder ==
    { << "loop", "events" >>, << "events", "clock" >>, << "clock", "stepping" >>,
      << "stepping", "clear" >>, << "clear", "draw" >>, << "draw", "display" >>,
      << "display", "loop" >>, << "loop", "done" >>, << "events", "done" >> }

\* C9: main moves through drain, clock and physics, clear, draw, present in
\* this order and back to the loop test; the drain ends only with the queue
\* empty; events are handled only in the drain, the clock is read once, before
\* the steps, steps are made only in the stepping pass, and between clear and
\* present only draw calls happen, one for every body.
C9_PhaseOrder ==
    [][/\ pc' # pc => << pc, pc' >> \in PhaseOrder
       /\ (pc = "events" /\ pc' = "clock") => pending = << >>
       /\ Len(pending') < Len(pending) => (pc = "events" /\ pc' \in {"events", "done"})
       /\ frames' # frames => (pc = "clock" /\ pc' = "stepping")
       /\ steps_total' # steps_total => (pc = "stepping" /\ pc' = "stepping")
       /\ canvas' # canvas => \/ pc = "clear" /\ canvas' = << >>
                              \/ pc = "draw" /\ pc' = "draw" /\ Len(canvas') = Len(canvas) + 1
       /\ (pc = "draw" /\ pc' = "display") => Len(canvas) = Len(world.bodies)
       /\ shown' # shown => (pc = "display" /\ pc' = "loop")]_vars

\* a running frame has stepped, cleared and drawn, with an event waiting that
\* arrived after the drain
C9_Witness ==
    /\ pc = "display" /\ frame_steps > 0
    /\ Len(canvas) = Len(world.bodies)
    /\ pending # << >>

(* ---------------- C10 ---------------- *)

\* C10: while paused, the drain still ends only with the queue empty, every
\* event waiting in the drain can be handled, and after the clock reading main
\* still goes through the (empty) stepping pass, clear, one draw call for every
\* body and present, and what it presents is the unchanged world.
C10_PausedStillHandlesAndRenders ==
    /\ [](paused => /\ (pc = "events" /\ pending # << >>) => ENABLED HandleEvent
                    /\ (pc = "clock" /\ frames < MaxFrames) => ENABLED ReadClock
                    /\ pc = "stepping" => ENABLED SteppingDone
                    /\ pc = "clear" => ENABLED Clear
                    /\ pc = "draw" => ENABLED (DrawBody \/ DrawDone)
                    /\ pc = "display" => ENABLED Display)
    /\ [][paused => /\ (pc = "events" /\ pc' = "clock") => pending = << >>
                    /\ Handles("Space") => ~paused'
                    /\ (pc = "stepping" /\ pc' # pc) => pc' = "clear"
                    /\ (pc = "clear" /\ pc' # pc) => (pc' = "draw" /\ canvas' = << >>)
                    /\ (pc = "draw" /\ pc' # pc)
                          => (pc' = "display" /\ canvas = RenderAll(world))
                    /\ (pc = "display" /\ pc' # pc)
                          => /\ pc' = "loop"
                             /\ shown' = RenderAll(world)
                             /\ frame_steps = 0
                             /\ frames > 1 => shown' = shown]_vars

\* a paused frame is presented a second time, after the world was stepped
C10_Witness ==
    /\ pc = "loop" /\ paused /\ frames > 1
    /\ frame_steps = 0 /\ steps_total > 0
    /\ shown = RenderAll(world)

(* ---------------- C11 ---------------- *)

\* the draw loop is past body i: its draw call was made, or main has panicked
\* in its turn
TurnOver(i) ==
    \/ pc = "draw" /\ body_i >= i
    \/ pc = "display"
    \/ pc = "panicked" /\ body_i >= i - 1

\* the screen position of the local point p of a body at position pos
ScreenPoint(pos, p) ==
    [x |-> (pos.x + p.x) * 100, y |-> (pos.y + p.y) * 100]

C11_ClosedPolygonWithPoints ==
    \A i \in 1..Len(world.bodies) :
        (/\ world.bodies[i].shape.kind = "PolygonShape"
         /\ Len(world.bodies[i].shape.points) >= 1
         /\ TurnOver(i))
            => /\ Len(canvas) >= i
               /\ LET points == world.bodies[i].shape.points
                      v == canvas[i].vertices
                  IN  /\ Len(v) = Len(points) + 1
                      /\ \A k \in 1..Len(points) :
                            v[k] = ScreenPoint(world.bodies[i].position, points[k])
                      /\ v[Len(v)] = v[1]

\* a polygon of two different points has been drawn with three vertices
C11_Witness ==
    /\ pc = "display" /\ Len(world.bodies) = 1
    /\ world.bodies[1].shape.kind = "PolygonShape"
    /\ Len(world.bodies[1].shape.points) = 2
    /\ world.bodies[1].shape.points[1] # world.bodies[1].shape.points[2]
    /\ Len(canvas[1].vertices) = 3

(* ---------------- C12 ---------------- *)

\* the local points of a shape, in the order they are drawn
LocalPoints(shape) ==
    CASE shape.kind = "CircleShape" -> << shape.center >>
      [] shape.kind = "LineShape" -> << shape.point1, shape.point2 >>
      [] shape.kind = "ChainLineShape" -> shape.points
      [] shape.kind = "PolygonShape" -> shape.points \o << shape.points[1] >>

\* C12: every vertex of every draw call made in a frame is
\* (body position + local point) * 100, with the position the body has when
\* the frame is drawn, for all four shape variants.
C12_ScreenCoordinates ==
    pc \in {"draw", "display"}
        => \A i \in 1..Len(canvas) :
             LET pts == LocalPoints(world.bodies[i].shape)
             IN  /\ Len(canvas[i].vertices) = Len(pts)
                 /\ \A k \in 1..Len(pts) :
                       canvas[i].vertices[k] = ScreenPoint(world.bodies[i].position, pts[k])

\* a dynamic circle has been stepped and then drawn
C12_Witness ==
    /\ pc = "display" /\ frame_steps = 2
    /\ Len(canvas) = 1
    /\ world.bodies[1].shape.kind = "CircleShape"
    /\ world.bodies[1].position # Vec2((7 * Meter) \div 2, Meter)

(* ---------------- C13 ---------------- *)

\* C13: handling Escape ends main in that very step, Running or Paused, and
\* changes nothing else; once main has ended, the events that were queued
\* behind the Escape are still in the queue, unhandled, and no clock reading,
\* accumulator update, world.step call, clear, draw or present happens.
C13_EscapeEndsAtOnce ==
    /\ [][Handles("Escape")
            => /\ Terminated'
               /\ left_behind' = Tail(pending)
               /\ UNCHANGED << window_open, paused, current_time, accumulator,
                               frame_time, world, body_i, canvas, shown >>
               /\ UNCHANGED << readings, steps_total, frames, fed >>]_vars
    /\ [](Terminated => /\ Len(pending) >= Len(left_behind)
                        /\ SubSeq(pending, 1, Len(left_behind)) = left_behind)
    /\ [][Terminated => /\ ~ENABLED HandleEvent
                        /\ UNCHANGED << current_time, accumulator, world, canvas, shown >>
                        /\ UNCHANGED << readings, steps_total, frames, left_behind >>]_vars

\* main has ended while Running, in the drain of its second frame, with the
\* window open and an event that was queued behind the Escape still waiting
C13_Witness ==
    /\ Terminated /\ window_open /\ ~paused
    /\ frames = 1 /\ steps_total > 0
    /\ left_behind # << >> /\ pending = left_behind

(* ---------------- C14 ---------------- *)

C15_BoundedStepping ==
    /\ [](pc \in {"loop", "events", "clock"} => accumulator < step)
    /\ [](frame_steps <= max_frame_time \div step)
    /\ [](pc = "stepping" => ENABLED (StepWorld \/ SteppingDone))
    /\ [][(pc = "clock" /\ pc' = "stepping")
             => accumulator' - accumulator <= max_frame_time]_vars
    /\ [][frame_steps' = frame_steps + 1
             => (accumulator >= step /\ accumulator' < accumulator)]_vars

\* after a stall of 250 ms the stepping pass has ended with 12 steps
C15_Witness ==
    /\ pc = "clear" /\ HasElapsed /\ Elapsed = 250 * Millisecond
    /\ frame_steps = max_frame_time \div step
    /\ accumulator < step

(* ---------------- C16 ---------------- *)

\* C16: until the first Space press has been handled main is Paused, the
\* accumulator is 0, no world.step call has been made and every draw call
\* made or presented shows the bodies where setup_box2d put them.
C16_PausedUntilFirstSpace ==
    before_press = << >>
        => /\ paused
           /\ accumulator = 0
           /\ steps_total = 0 /\ frame_steps = 0
           /\ world = setup_box2d
           /\ \A k \in 1..Len(canvas) : canvas[k] = DrawCall(setup_box2d, k)
           /\ shown \in { << >>, RenderAll(setup_box2d) }

\* three frames, one of them 250 ms long, were presented with no Space press
C16_Witness ==
    /\ before_press = << >> /\ pc = "loop" /\ frames = 3
    /\ HasElapsed /\ Elapsed = 250 * Millisecond
    /\ shown = RenderAll(setup_box2d)

(* ---------------- C17 ---------------- *)

\* the wall-clock time main has spent Running when it makes the steps of its
\* first loop iteration: it starts Paused and can become Running only in the
\* first drain, which the clock reading and the steps follow at once
RunningWallFirstIteration == 0

\* C17: the simulated time, steps_total * step, is never more than the
\* wall-clock time spent Running; stated for the first loop iteration, a
\* Space press pending in its drain included.
C17_SimulatedWithinRunningTime ==
    frames <= 1 => steps_total * step <= RunningWallFirstIteration

(* ---------------- C18 ---------------- *)

====
